---- MODULE Spec2Model ----
(***************************************************************************)
(* Model of the filter backends of kpi/filters.py:                         *)
(*   KpiObjectPermissionsFilter, SearchFilter,                             *)
(*   KpiAssignedObjectPermissionsFilter and AttachmentFilter.              *)
(* Each backend is a request handler over database (and search index)      *)
(* content; the state is that content plus the last request and its        *)
(* response.  One specification per backend.                               *)
(***************************************************************************)
EXTENDS Integers, Sequences, FiniteSets, TLC

VARIABLES
    grants,   \* view permissions: set of <<user id, object id>>
    subs,     \* UserCollectionSubscription rows: set of <<user id, collection id>>
    disc,     \* collections whose discoverable_when_public is True
    areq,     \* last request seen by KpiObjectPermissionsFilter ("None" before any)
    ares,     \* its response: the set of visible objects
    index,    \* documents of the Whoosh index
    sreq,     \* last request seen by SearchFilter
    sres,     \* its response
    perms,    \* ObjectPermission rows, a sequence whose position is the pk
    preq,     \* last request seen by KpiAssignedObjectPermissionsFilter
    pres,     \* its response: the set of visible pks
    atts,     \* Attachment rows, a sequence whose position is the pk
    treq,     \* last request seen by AttachmentFilter
    tres      \* its response

vars == <<grants, subs, disc, areq, ares, index, sreq, sres,
          perms, preq, pres, atts, treq, tres>>

accessVars == <<grants, subs, disc, areq, ares>>

searchVars == <<index, sreq, sres>>

assignedVars == <<perms, preq, pres>>

attachVars == <<atts, treq, tres>>

\* What each backend leaves alone: the data of the others.
notAccess == <<searchVars, assignedVars, attachVars>>

notSearch == <<accessVars, assignedVars, attachVars>>

notAssigned == <<accessVars, searchVars, attachVars>>

notAttach == <<accessVars, searchVars, assignedVars>>

None == "None"

(***************************************************************************)
(* Users.  request.user is either django's AnonymousUser or a User row;    *)
(* get_anonymous_user() is the User row that stands for every anonymous    *)
(* visitor.                                                                *)
(***************************************************************************)
AnonymousUserId == "anonymous"

UserIds == {AnonymousUserId, "alice"}

AnonymousUser == [id |-> None, is_superuser |-> FALSE, is_anonymous |-> TRUE]

Principals ==
    { AnonymousUser,
      [id |-> "alice", is_superuser |-> FALSE, is_anonymous |-> FALSE],
      [id |-> "alice", is_superuser |-> TRUE, is_anonymous |-> FALSE] }

get_anonymous_user == [id |-> AnonymousUserId, is_superuser |-> FALSE,
                       is_anonymous |-> FALSE]

(***************************************************************************)
(* KpiObjectPermissionsFilter                                              *)
(***************************************************************************)
NObj == 2

MaxGrants == 2

MaxSubs == 1

Objects == 1 .. NObj

\* The parent (a collection) of object o; the first object has none.
HasParent(o) == o > 1

ParentOf(o) == o - 1

\* The models the filter is used with, by the lookups their querysets accept:
\* a collection carries the discoverability flag and the subscriptions
\* itself, an asset reaches them through its parent, a tag has neither.
ModelFields ==
    [ collection |-> {"discoverable_when_public", "usercollectionsubscription",
                      "parent__discoverable_when_public",
                      "parent__usercollectionsubscription"},
      asset |-> {"parent__discoverable_when_public",
                 "parent__usercollectionsubscription"},
      tag |-> {} ]

AccessModels == {"collection", "asset", "tag"}

\* queryset.filter(<lookup>) raises FieldError iff the model lacks the field.
FieldError(model, lookup) == lookup \notin ModelFields[model]

\* distutils.util.strtobool on the lower-cased all_public parameter
\* (absent: 'false').
AllPublicParams == {"absent", "True"}

Lower(s) == IF s = "True" THEN "true" ELSE s

strtobool(s) ==
    IF s \in {"y", "yes", "t", "true", "on", "1"} THEN TRUE
    ELSE IF s \in {"n", "no", "f", "false", "off", "0"} THEN FALSE
    ELSE CHOOSE b \in {} : TRUE   \* ValueError

all_public_of(param) ==
    strtobool(Lower(IF param = "absent" THEN "false" ELSE param))

\* The database the filter reads.
DB == [grants |-> grants, subs |-> subs, disc |-> disc]

\* Objects of the queryset on which the user holds the view permission.
get_objects_for_user(db, user, queryset) ==
    {o \in queryset : <<user.id, o>> \in db.grants}

\* public.filter(discoverable_when_public=True), with its fallbacks.
Discoverable(db, model, public) ==
    IF ~FieldError(model, "discoverable_when_public")
    THEN {o \in public : o \in db.disc}
    ELSE IF ~FieldError(model, "parent__discoverable_when_public")
    THEN {o \in public : HasParent(o) /\ ParentOf(o) \in db.disc}
    ELSE {}

\* public.filter(usercollectionsubscription__user=user), with its fallbacks.
Subscribed(db, model, public, user) ==
    IF ~FieldError(model, "usercollectionsubscription")
    THEN {o \in public : <<user.id, o>> \in db.subs}
    ELSE IF ~FieldError(model, "parent__usercollectionsubscription")
    THEN {o \in public : HasParent(o) /\ <<user.id, ParentOf(o)>> \in db.subs}
    ELSE {}

\* A faulty bypass: the superuser sees everything, lists included.
SuperuserAlways(user, action) == user.is_superuser

SuperuserBypass(user, action) == user.is_superuser /\ action # "list"

\* A faulty lookup: a grant on the parent also shows the object.
InheritedObjectsForUser(db, user, queryset) ==
    {o \in queryset : \/ <<user.id, o>> \in db.grants
                      \/ HasParent(o) /\ <<user.id, ParentOf(o)>> \in db.grants}

OwnedAndExplicitlyShared(db, user, queryset) ==
    get_objects_for_user(db, user, queryset)

\* filter_queryset on the database db.
FilterQuerysetOn(db, request_user, action, param, model, queryset) ==
    IF SuperuserBypass(request_user, action) THEN queryset
    ELSE
    LET all_public == all_public_of(param)
        user == IF request_user.is_anonymous THEN get_anonymous_user
                ELSE request_user
        owned_and_explicitly_shared ==
            IF request_user.is_anonymous THEN {}
            ELSE OwnedAndExplicitlyShared(db, user, queryset)
        public == get_objects_for_user(db, get_anonymous_user, queryset)
    IN  IF action # "list" THEN owned_and_explicitly_shared \cup public
        ELSE IF all_public
        THEN owned_and_explicitly_shared \cup Discoverable(db, model, public)
        ELSE owned_and_explicitly_shared \cup Subscribed(db, model, public, user)

KpiObjectPermissionsFilter(r) ==
    FilterQuerysetOn(DB, r.user, r.action, r.all_public, r.model, r.queryset)

NoRequest == [made |-> FALSE]

\* The base sets handed to the filter: the whole table, or all but one row.
BaseSets == {Objects} \cup {Objects \ {o} : o \in Objects}

AccessRequests ==
    [made : {TRUE}, user : Principals, action : {"list", "retrieve"},
     all_public : AllPublicParams, model : AccessModels, queryset : BaseSets]

AccessInit ==
    /\ grants = {} /\ subs = {} /\ disc = {}
    /\ areq = NoRequest /\ ares = {}

\* A recorded response describes the database it was computed on: a change
\* of the database drops it.
AccessForget == areq' = NoRequest /\ ares' = {}

AddGrant(u, o) ==
    /\ <<u, o>> \notin grants
    /\ Cardinality(grants) < MaxGrants
    /\ grants' = grants \cup {<<u, o>>}
    /\ AccessForget
    /\ UNCHANGED <<subs, disc, notAccess>>

RemoveGrant(u, o) ==
    /\ <<u, o>> \in grants
    /\ grants' = grants \ {<<u, o>>}
    /\ AccessForget
    /\ UNCHANGED <<subs, disc, notAccess>>

Subscribe(u, c) ==
    /\ <<u, c>> \notin subs
    /\ Cardinality(subs) < MaxSubs
    /\ subs' = subs \cup {<<u, c>>}
    /\ AccessForget
    /\ UNCHANGED <<grants, disc, notAccess>>

Unsubscribe(u, c) ==
    /\ <<u, c>> \in subs
    /\ subs' = subs \ {<<u, c>>}
    /\ AccessForget
    /\ UNCHANGED <<grants, disc, notAccess>>

SetDiscoverable(c) ==
    /\ disc' = IF c \in disc THEN disc \ {c} ELSE disc \cup {c}
    /\ AccessForget
    /\ UNCHANGED <<grants, subs, notAccess>>

\* One request is in flight at a time.
AccessRequest(r) ==
    /\ ~areq.made
    /\ areq' = r
    /\ ares' = KpiObjectPermissionsFilter(r)
    /\ UNCHANGED <<grants, subs, disc, notAccess>>

AccessNext ==
    \/ \E u \in UserIds, o \in Objects : AddGrant(u, o)
    \/ \E u \in UserIds, o \in Objects : RemoveGrant(u, o)
    \/ \E u \in UserIds, c \in Objects : Subscribe(u, c)
    \/ \E u \in UserIds, c \in Objects : Unsubscribe(u, c)
    \/ \E c \in Objects : SetDiscoverable(c)
    \/ \E r \in AccessRequests : AccessRequest(r)

(***************************************************************************)
(* SearchFilter                                                            *)
(***************************************************************************)
\* A query string is a sequence of tokens; Atoms are runs of characters
\* without a space, a colon or a parenthesis.
Atoms == {"block", "question", "template", "survey", "abc", "foo", "bar"}

SpaceTokens == {" OR ", " AND "}

\* The rows of the model's table: pk |-> fields.
AssetRows ==
    << [asset_type |-> "question", parent__uid |-> "abc"],
       [asset_type |-> "block", parent__uid |-> None],
       [asset_type |-> "survey", parent__uid |-> "abc"] >>

AllPks == DOMAIN AssetRows

\* The two models the filter is used with here: Asset has the fields the
\* short-circuits use and an index with users_granted_permission; Tag has
\* none of them.
SearchModelFields ==
    [ asset |-> {"parent", "asset_type", "parent__uid"},
      tag |-> {} ]

SearchModels == {"asset", "tag"}

IndexHasUGP(model) == model = "asset"

SearchFieldError(model, lookup) == lookup \notin SearchModelFields[model]

TQ(t) == <<"asset_type:", t>>

COMMON_QUERY_TO_ORM_FILTER ==
    { [q |-> TQ("block"), types |-> {"block"}],
      [q |-> TQ("question"), types |-> {"question"}],
      [q |-> TQ("template"), types |-> {"template"}],
      [q |-> TQ("survey"), types |-> {"survey"}],
      [q |-> TQ("question") \o <<" OR ">> \o TQ("block"),
       types |-> {"question", "block"}],
      [q |-> TQ("question") \o <<" OR ">> \o TQ("block") \o <<" OR ">>
                \o TQ("template"),
       types |-> {"question", "block", "template"}] }

CommonKeys == {e.q : e \in COMMON_QUERY_TO_ORM_FILTER}

CommonTypes(q) == (CHOOSE e \in COMMON_QUERY_TO_ORM_FILTER : e.q = q).types

\* One step of the automaton of (?:asset_type:(?:[^ ]+)(?: OR )*)+ :
\* "t" expects asset_type:, "v" has read it, "n" is inside [^ ]+,
\* "o" has read an " OR ".
G1Step(S, tok) ==
    (IF tok = "asset_type:" /\ S \cap {"t", "n", "o"} # {} THEN {"v"} ELSE {})
    \cup (IF tok \notin SpaceTokens /\ S \cap {"v", "n"} # {} THEN {"n"} ELSE {})
    \cup (IF tok = " OR " /\ S \cap {"n", "o"} # {} THEN {"o"} ELSE {})

RECURSIVE G1Run(_, _)
G1Run(S, toks) ==
    IF toks = <<>> THEN S ELSE G1Run(G1Step(S, Head(toks)), Tail(toks))

G1Accepts(toks) == G1Run({"t"}, toks) \cap {"n", "o"} # {}

\* Least position from lo on whose token is in T, 0 when there is none.
FirstIn(q, lo, T) ==
    IF \E i \in lo .. Len(q) : q[i] \in T
    THEN CHOOSE i \in lo .. Len(q) :
            q[i] \in T /\ \A j \in lo .. (i - 1) : q[j] \notin T
    ELSE 0

\* library_collection_pattern.match(q): the pattern anchored at the start of
\* q only.  Whether it matches and, if so, the two groups and the position
\* the match ends at.
PatternMatch(q) ==
    LET a == FirstIn(q, 1, {" AND "})
        k == FirstIn(q, a + 3, {")"})
    IN  IF /\ Len(q) >= 1 /\ q[1] = "("
           /\ a >= 4 /\ q[a - 1] = ")"
           /\ G1Accepts(SubSeq(q, 2, a - 2))
           /\ Len(q) >= a + 2 /\ q[a + 1] = "(" /\ q[a + 2] = "parent__uid:"
           /\ k > a + 3
        THEN [ok |-> TRUE, g1 |-> SubSeq(q, 2, a - 2),
              g2 |-> SubSeq(q, a + 3, k - 1), end |-> k]
        ELSE [ok |-> FALSE, g1 |-> <<>>, g2 |-> <<>>, end |-> 0]

\* The pattern anchored at both ends: the whole of q has its shape.
PatternFullMatch(q) ==
    LET m == PatternMatch(q)
    IN  IF m.ok /\ m.end = Len(q) THEN m
        ELSE [ok |-> FALSE, g1 |-> <<>>, g2 |-> <<>>, end |-> 0]

library_collection_match(q) == PatternMatch(q)

\* g1.split(' OR ')
RECURSIVE SplitOr(_, _)
SplitOr(toks, cur) ==
    IF toks = <<>> THEN <<cur>>
    ELSE IF Head(toks) = " OR " THEN <<cur>> \o SplitOr(Tail(toks), <<>>)
    ELSE SplitOr(Tail(toks), Append(cur, Head(toks)))

\* type_query.split(':')[1]: the atom after asset_type: when nothing else
\* follows it; any longer text is no asset type of the table ("?").
TypeOf(part) ==
    IF Len(part) = 2 /\ part[1] = "asset_type:" /\ part[2] \in Atoms
    THEN part[2] ELSE "?"

UidOf(toks) == IF Len(toks) = 1 /\ toks[1] \in Atoms THEN toks[1] ELSE "?"

\* The index: documents written by haystack.  django_id is text.
Digits == <<"1", "2", "3", "4">>

\* pk_type(x['django_id']) with pk_type = int
IntOf(s) == CHOOSE n \in DOMAIN Digits : Digits[n] = s

MaxDocs == 2

DocUniverse ==
    [django_ct : {"asset", "tag"}, django_id : {"1", "4"},
     users_granted_permission : {{"alice"}, {"bob"}, {"alice", "bob"}}]

\* QueryParser('text', schema).parse(q) run by Whoosh: every document's text
\* is the word foo, so that a query matches a document iff it asks for foo.
UserQueryMatches(q, doc) == \E i \in DOMAIN q : q[i] = "foo"

\* filter_query: the model's content type and, when the index has the field,
\* the requesting user's name among users_granted_permission.
FilterQueryMatches(model, username, doc) ==
    /\ doc.django_ct = model
    /\ IndexHasUGP(model) => username \in doc.users_granted_permission

\* queryset.filter(pk__in=pks)
FilterPkIn(queryset, pks) == {pk \in queryset : pk \in pks}

\* A faulty lookup: made on the model's whole table.
ManagerPkIn(queryset, pks) == {pk \in AllPks : pk \in pks}

Ok(set, path) == [kind |-> "ok", set |-> set, path |-> path]

Raise(what) == [kind |-> "raise", set |-> {}, path |-> what]

\* A faulty search that trusts the index: the pks it returns are not
\* checked against the queryset.
WhooshSearchUnchecked(r, queryset) ==
    LET results == {d \in index : /\ UserQueryMatches(r.q, d)
                                  /\ FilterQueryMatches(r.model, r.username, d)}
        probe == {d \in index : FilterQueryMatches(r.model, r.username, d)}
        results_pks == {IntOf(d.django_id) : d \in results}
    IN  IF results = {} /\ probe = {} THEN Ok(queryset, "fallback")
        ELSE Ok(ManagerPkIn(queryset, results_pks), "index")

\* A faulty search that fails closed: no probe, no fallback.
WhooshSearchNoFallback(r, queryset) ==
    LET results == {d \in index : /\ UserQueryMatches(r.q, d)
                                  /\ FilterQueryMatches(r.model, r.username, d)}
        results_pks == {IntOf(d.django_id) : d \in results}
    IN  Ok(FilterPkIn(queryset, results_pks \cap queryset), "index")

WhooshSearch(r, queryset) ==
    LET results == {d \in index : /\ UserQueryMatches(r.q, d)
                                  /\ FilterQueryMatches(r.model, r.username, d)}
        probe == {d \in index : FilterQueryMatches(r.model, r.username, d)}
        results_pks == {IntOf(d.django_id) : d \in results}
        filter_pks == results_pks \cap queryset
    IN  IF results = {} /\ probe = {} THEN Ok(queryset, "fallback")
        ELSE Ok(FilterPkIn(queryset, filter_pks), "index")

ShortCircuitPattern(r, queryset, m) ==
    LET parts == SplitOr(m.g1, <<>>)
        asset_types == {TypeOf(parts[i]) : i \in DOMAIN parts}
        parent__uid == UidOf(m.g2)
    IN  IF \E i \in DOMAIN parts : Len(parts[i]) < 2 THEN Raise("IndexError")
        ELSE IF SearchFieldError(r.model, "asset_type")
                \/ SearchFieldError(r.model, "parent__uid")
        THEN Ok({}, "pattern")
        ELSE Ok({pk \in queryset : /\ AssetRows[pk].asset_type \in asset_types
                                   /\ AssetRows[pk].parent__uid = parent__uid},
                "pattern")

SearchFilter(r) ==
    IF r.parent = "" /\ SearchFieldError(r.model, "parent") THEN Raise("FieldError")
    ELSE
    LET queryset == IF r.parent = ""
                    THEN {pk \in r.queryset : AssetRows[pk].parent__uid = None}
                    ELSE r.queryset
    IN  IF ~r.has_q THEN Ok(queryset, "noq")
        ELSE IF r.q \in CommonKeys
        THEN IF SearchFieldError(r.model, "asset_type") THEN Ok({}, "table")
             ELSE Ok({pk \in queryset :
                        AssetRows[pk].asset_type \in CommonTypes(r.q)}, "table")
        ELSE IF library_collection_match(r.q).ok
        THEN ShortCircuitPattern(r, queryset, library_collection_match(r.q))
        ELSE IF queryset = {} THEN Ok(queryset, "empty")
        ELSE IF r.backend # "whoosh" THEN Raise("NotImplementedError")
        ELSE WhooshSearch(r, queryset)

PQ(types, uid) == <<"(">> \o types \o <<")", " AND ", "(", "parent__uid:", uid, ")">>

Queries ==
    { <<>>,
      TQ("block"),
      TQ("question") \o <<" OR ">> \o TQ("block"),
      TQ("block") \o <<" OR ">> \o TQ("question"),
      TQ("block") \o <<" AND ", "foo">>,
      <<"foo">>,
      <<"bar">>,
      PQ(TQ("question") \o <<" OR ">> \o TQ("block"), "abc"),
      PQ(TQ("question") \o <<" OR ">> \o TQ("survey"), "abc") \o <<" AND ", "foo">>,
      PQ(TQ("survey") \o <<" OR ">>, "abc"),
      <<"foo", " AND ">> \o PQ(TQ("question"), "abc") }

\* The access-controlled querysets handed to the filter.
SearchQuerysets == {{}, {1}, {2, 3}, AllPks}

SearchRequests ==
    [made : {TRUE}, has_q : {FALSE}, q : {<<>>}, parent : {"absent", ""},
     username : {"alice"}, queryset : SearchQuerysets, model : SearchModels,
     backend : {"whoosh", "solr"}]
    \cup
    [made : {TRUE}, has_q : {TRUE}, q : Queries, parent : {"absent", ""}, username : {"alice"},
     queryset : SearchQuerysets, model : SearchModels,
     backend : {"whoosh", "solr"}]

SearchInit == index = {} /\ sreq = NoRequest /\ sres = Ok({}, "none")

SearchForget == sreq' = NoRequest /\ sres' = Ok({}, "none")

UpdateIndex(d) ==
    /\ d \notin index
    /\ Cardinality(index) < MaxDocs
    /\ index' = index \cup {d}
    /\ SearchForget
    /\ UNCHANGED notSearch

RemoveFromIndex(d) ==
    /\ d \in index
    /\ index' = index \ {d}
    /\ SearchForget
    /\ UNCHANGED notSearch

SearchRequest(r) ==
    /\ ~sreq.made
    /\ sreq' = r
    /\ sres' = SearchFilter(r)
    /\ UNCHANGED <<index, notSearch>>

SearchNext ==
    \/ \E d \in DocUniverse : UpdateIndex(d)
    \/ \E d \in DocUniverse : RemoveFromIndex(d)
    \/ \E r \in SearchRequests : SearchRequest(r)

(***************************************************************************)
(* KpiAssignedObjectPermissionsFilter                                      *)
(***************************************************************************)
MaxPerms == 3

ContentTypes == {"asset", "collection"}

ObjectIds == {1, 2}

PermUsers == {AnonymousUserId, "alice", "bob"}

AssignedPrincipals ==
    { AnonymousUser,
      [id |-> "alice", is_superuser |-> FALSE, is_anonymous |-> FALSE],
      [id |-> "bob", is_superuser |-> FALSE, is_anonymous |-> FALSE],
      [id |-> "root", is_superuser |-> TRUE, is_anonymous |-> FALSE] }

\* The queryset: every ObjectPermission row, by pk.
PermPks == DOMAIN perms

KpiAssignedObjectPermissionsFilter(request_user) ==
    LET user == IF request_user.is_anonymous THEN get_anonymous_user
                ELSE request_user
        queryset == PermPks
        content_type_ids == {perms[pk].content_type : pk \in queryset}
        object_ids(ct) == {perms[pk].object_id : pk \in
                             {k \in queryset : /\ perms[k].content_type = ct
                                               /\ perms[k].user = user.id}}
        object_permission_ids ==
            UNION {{pk \in queryset : perms[pk].object_id \in object_ids(ct)} :
                   ct \in content_type_ids}
    IN  IF user.is_superuser THEN queryset
        ELSE IF user.id = AnonymousUserId
        THEN {pk \in queryset : perms[pk].user = user.id}
        ELSE {pk \in queryset : pk \in object_permission_ids}

AssignedInit == perms = <<>> /\ preq = NoRequest /\ pres = {}

AssignPerm(ct, oid, u) ==
    /\ Len(perms) < MaxPerms
    /\ perms' = Append(perms, [content_type |-> ct, object_id |-> oid, user |-> u])
    /\ preq' = NoRequest /\ pres' = {}
    /\ UNCHANGED notAssigned

AssignedRequest(p) ==
    /\ ~preq.made
    /\ preq' = [made |-> TRUE, user |-> p]
    /\ pres' = KpiAssignedObjectPermissionsFilter(p)
    /\ UNCHANGED <<perms, notAssigned>>

AssignedNext ==
    \/ \E ct \in ContentTypes, oid \in ObjectIds, u \in PermUsers :
          AssignPerm(ct, oid, u)
    \/ \E p \in AssignedPrincipals : AssignedRequest(p)

(***************************************************************************)
(* AttachmentFilter                                                        *)
(***************************************************************************)
MaxAtt == 3

\* Text is a sequence of characters where the code looks inside it.
LowerChar(c) ==
    CASE c = "A" -> "a" [] c = "I" -> "i" [] c = "M" -> "m" [] OTHER -> c

LowerText(t) == [i \in DOMAIN t |-> LowerChar(t[i])]

\* mimetype__istartswith=prefix
IStartsWith(text, prefix) ==
    /\ Len(prefix) <= Len(text)
    /\ LowerText(SubSeq(text, 1, Len(prefix))) = LowerText(prefix)

Mimetypes == {<<"i", "m", "g">>, <<"A", "u", "d">>}

TypeParams == {<<>>, <<"I", "M">>}

\* att.question: the question's record ({name, in_latest_version}) or None.
Questions == {None, "Qa", "Qb"}

InLatestVersion(q) == q = "Qa"

\* att.instance: two attachments per submission, in pk order.
InstanceId(pk) == (pk + 1) \div 2

InstanceUuid(pk) == IF InstanceId(pk) = 1 THEN "uuid-1" ELSE "uuid-n"

\* instance.submission: the first submission's record is there, the others'
\* are not.
InstanceSubmission(pk) == IF InstanceId(pk) = 1 THEN "S1" ELSE None

AttachmentUniverse ==
    [mimetype : Mimetypes, question_index : {1, 2}, question : Questions]

\* queryset.order_by('pk') or ('-pk') over the pks in S
RECURSIVE OrderByPk(_, _)
OrderByPk(S, sort) ==
    IF S = {} THEN <<>>
    ELSE LET first == IF sort = "-pk"
                      THEN CHOOSE x \in S : \A y \in S : y <= x
                      ELSE CHOOSE x \in S : \A y \in S : x <= y
         IN  <<first>> \o OrderByPk(S \ {first}, sort)

\* The sort keys: att.question_index, or (att.instance.id, att.question_index).
KeyLeq(order_by, a, b) ==
    IF order_by = "question"
    THEN atts[a].question_index <= atts[b].question_index
    ELSE \/ InstanceId(a) < InstanceId(b)
         \/ /\ InstanceId(a) = InstanceId(b)
            /\ atts[a].question_index <= atts[b].question_index

\* sorted(seq, key=...): stable.
RECURSIVE Sorted(_, _, _)
Sorted(order_by, seq, acc) ==
    IF seq = <<>> THEN acc
    ELSE LET x == Head(seq)
             c == Cardinality({i \in DOMAIN acc : KeyLeq(order_by, acc[i], x)})
         IN  Sorted(order_by, Tail(seq),
                    SubSeq(acc, 1, c) \o <<x>> \o SubSeq(acc, c + 1, Len(acc)))

\* The group keys: (att.question_index, att.question), or
\* (att.instance.uuid, att.instance.submission).
GroupKey(group_by, pk) ==
    IF group_by = "question"
    THEN [k0 |-> atts[pk].question_index, k1 |-> atts[pk].question]
    ELSE [k0 |-> InstanceUuid(pk), k1 |-> InstanceSubmission(pk)]

\* itertools.groupby: the runs of consecutive elements with equal keys.
RECURSIVE GroupBy(_, _, _)
GroupBy(group_by, seq, acc) ==
    IF seq = <<>> THEN acc
    ELSE LET x == Head(seq)
             k == GroupKey(group_by, x)
             n == Len(acc)
         IN  IF n > 0 /\ acc[n].key = k
             THEN GroupBy(group_by, Tail(seq),
                          [acc EXCEPT ![n].attachments = Append(@, x)])
             ELSE GroupBy(group_by, Tail(seq),
                          Append(acc, [key |-> k, attachments |-> <<x>>]))

\* Rows of the grouped response, the ones the all flag leaves out dropped.
RECURSIVE QuestionRows(_, _, _)
QuestionRows(groups, i, all) ==
    IF i > Len(groups) THEN <<>>
    ELSE LET g == groups[i]
             synthetic == g.key.k1 = None
             keep == all \/ (~all /\ ~synthetic /\ InLatestVersion(g.key.k1))
             row == [question |-> g.key.k1,
                     number |-> IF synthetic THEN g.key.k0 ELSE 0,
                     attachments |-> g.attachments, index |-> i - 1]
         IN  (IF keep THEN <<row>> ELSE <<>>) \o QuestionRows(groups, i + 1, all)

SubmissionRows(groups) ==
    [i \in DOMAIN groups |->
        [submission |-> groups[i].key.k1,
         instance_uuid |-> IF groups[i].key.k1 = None THEN groups[i].key.k0
                           ELSE None,
         attachments |-> groups[i].attachments, index |-> i - 1]]

\* request.query_params.get("all", "true") == "true"
AllFlag(r) == (IF r.all = "absent" THEN "true" ELSE r.all) = "true"

AttachmentFilter(r) ==
    LET all == AllFlag(r)
        order_by == IF r.group_by # None THEN r.group_by ELSE r.order_by
        sort == IF r.sort = "desc" THEN "-pk" ELSE "pk"
        queryset == IF r.type # <<>>
                    THEN {pk \in DOMAIN atts :
                            IStartsWith(atts[pk].mimetype, LowerText(r.type))}
                    ELSE DOMAIN atts
    IN  IF order_by = "question"
        THEN LET sorted == Sorted("question", OrderByPk(queryset, sort), <<>>)
             IN  IF r.group_by = "question"
                 THEN [kind |-> "rows",
                       rows |-> QuestionRows(GroupBy("question", sorted, <<>>),
                                             1, all)]
                 ELSE [kind |-> "list", rows |-> sorted]
        ELSE IF order_by = "submission"
        THEN LET sorted == Sorted("submission", OrderByPk(queryset, sort), <<>>)
             IN  IF r.group_by = "submission"
                 THEN [kind |-> "rows",
                       rows |-> SubmissionRows(GroupBy("submission", sorted, <<>>))]
                 ELSE [kind |-> "list", rows |-> sorted]
        ELSE [kind |-> "list", rows |-> OrderByPk(queryset, sort)]

AttachmentRequests ==
    [made : {TRUE}, type : TypeParams, group_by : {None, "question", "submission"},
     order_by : {None, "question", "submission"}, sort : {"absent", "desc"}, all : {"absent", "false"}]

AttachInit ==
    atts = <<>> /\ treq = NoRequest /\ tres = [kind |-> "list", rows |-> <<>>]

AddAttachment(a) ==
    /\ Len(atts) < MaxAtt
    /\ atts' = Append(atts, a)
    /\ treq' = NoRequest /\ tres' = [kind |-> "list", rows |-> <<>>]
    /\ UNCHANGED notAttach

AttachmentRequest(r) ==
    /\ ~treq.made
    /\ treq' = r
    /\ tres' = AttachmentFilter(r)
    /\ UNCHANGED <<atts, notAttach>>

AttachNext ==
    \/ \E a \in AttachmentUniverse : AddAttachment(a)
    \/ \E r \in AttachmentRequests : AttachmentRequest(r)

(***************************************************************************)
(* Specifications: one per filter backend; the other backends' data stay   *)
(* as constructed.                                                         *)
(***************************************************************************)
Init == AccessInit /\ SearchInit /\ AssignedInit /\ AttachInit

SpecAccess == Init /\ [][AccessNext]_vars

SpecSearch == Init /\ [][SearchNext]_vars

SpecAssigned == Init /\ [][AssignedNext]_vars

SpecAttach == Init /\ [][AttachNext]_vars

(***************************************************************************)
(* Properties of KpiObjectPermissionsFilter                                *)
(***************************************************************************)
EffectiveUser(p) == IF p.is_anonymous THEN get_anonymous_user ELSE p

\* ownedOrShared, public and discoverable as the documentation defines them.
OwnedOrShared(r) ==
    IF r.user.is_anonymous THEN {}
    ELSE {o \in r.queryset : <<r.user.id, o>> \in grants}

PublicSet(r) == {o \in r.queryset : <<AnonymousUserId, o>> \in grants}

DiscoverableSet(r) == Discoverable(DB, r.model, PublicSet(r))

\* subscribed: the subset of discoverable the principal is subscribed to.
SubscribedSet(r) ==
    Subscribed(DB, r.model, DiscoverableSet(r), EffectiveUser(r.user))

\* C1: for a list with all_public false the response is exactly
\* ownedOrShared plus the discoverable objects the principal is subscribed
\* to; a public object that is not discoverable and not granted to the
\* principal is never in it.  Stated for the authenticated principals; C5
\* states the anonymous one's case.
C1_ListIsOwnedOrSubscribedDiscoverable ==
    (/\ areq.made /\ ~areq.user.is_anonymous
     /\ areq.action = "list" /\ ~all_public_of(areq.all_public))
        => ares = OwnedOrShared(areq) \cup SubscribedSet(areq)

\* C4: a superuser gets the base set unchanged for any action but list, and
\* for list what the same user without the superuser flag gets.
C4_SuperuserAsymmetry ==
    (areq.made /\ areq.user.is_superuser)
        => IF areq.action # "list" THEN ares = areq.queryset
           ELSE ares = KpiObjectPermissionsFilter(
                          [areq EXCEPT !.user.is_superuser = FALSE])

C4_Witness ==
    /\ areq.made /\ areq.user.is_superuser /\ areq.action = "list"
    /\ ares # {} /\ ares # areq.queryset

\* C5: for an anonymous principal the response is the public set (not a
\* list), the discoverable set (list, all_public true) or the subscribed set
\* of the anonymous identity (list, all_public false); never anything owned.
C5_AnonymousBranches ==
    (areq.made /\ areq.user.is_anonymous)
        => /\ OwnedOrShared(areq) = {}
           /\ areq.action # "list" => ares = PublicSet(areq)
           /\ (areq.action = "list" /\ all_public_of(areq.all_public))
                 => ares = DiscoverableSet(areq)
           /\ (areq.action = "list" /\ ~all_public_of(areq.all_public))
                 => ares = SubscribedSet(areq)

\* The response to the recorded request on the database with one more grant.
AfterGrant(u, o) ==
    FilterQuerysetOn([DB EXCEPT !.grants = @ \cup {<<u, o>>}], areq.user,
                     areq.action, areq.all_public, areq.model, areq.queryset)

\* C6: adding a view grant for P on R, everything else unchanged, removes
\* nothing from what P sees and adds at most R.
C6_GrantMonotone ==
    [][\A u \in UserIds, o \in Objects :
          (/\ areq.made /\ EffectiveUser(areq.user).id = u
           /\ <<u, o>> \notin grants /\ grants' = grants \cup {<<u, o>>}
           /\ subs' = subs /\ disc' = disc)
          => LET after == FilterQuerysetOn(DB', areq.user, areq.action,
                              areq.all_public, areq.model, areq.queryset)
             IN  ares \subseteq after /\ after \ ares \subseteq {o}]_vars

\* A request was answered without R, and the grant that shows R to its
\* principal can be added.
C6_Witness ==
    /\ areq.made
    /\ \E o \in Objects :
          LET u == EffectiveUser(areq.user).id
          IN  /\ <<u, o>> \notin grants /\ Cardinality(grants) < MaxGrants
              /\ ares # {} /\ o \notin ares
              /\ AfterGrant(u, o) = ares \cup {o}

(***************************************************************************)
(* Properties of SearchFilter                                              *)
(***************************************************************************)
\* C2: whatever the query, the index and the path taken, the response holds
\* no object outside the queryset the filter was given.
C2_SubsetOfQueryset ==
    (sreq.made /\ sres.kind = "ok") => sres.set \subseteq sreq.queryset

\* The index answered with a document whose id is outside the queryset.
C2_Witness ==
    /\ sreq.made /\ sres.kind = "ok" /\ sres.path = "index" /\ sres.set # {}
    /\ \E d \in index :
          /\ UserQueryMatches(sreq.q, d)
          /\ FilterQueryMatches(sreq.model, sreq.username, d)
          /\ IntOf(d.django_id) \notin sreq.queryset

IndexEmptyFor(model) == \A d \in index : d.django_ct # model

\* What the filter returns when no q is given.
WithoutQ(r) == SearchFilter([r EXCEPT !.has_q = FALSE, !.q = <<>>]).set

\* C7 as stated: with no document of the type in the index, every q leaves
\* the queryset unfiltered.
C7_EmptyIndexAnyQuery ==
    (sreq.made /\ sreq.has_q /\ sres.kind = "ok" /\ IndexEmptyFor(sreq.model))
        => sres.set = WithoutQ(sreq)

\* C7 as amended: with no document of the type in the index, every q that
\* is neither a table string nor matched by the pattern leaves the queryset
\* unfiltered.
C7_EmptyIndexMissQuery ==
    (/\ sreq.made /\ sreq.has_q /\ sres.kind = "ok"
     /\ IndexEmptyFor(sreq.model)
     /\ sreq.q \notin CommonKeys /\ ~PatternMatch(sreq.q).ok)
        => sres.set = WithoutQ(sreq)

C7_Witness ==
    /\ sreq.made /\ sres.kind = "ok" /\ sres.path = "fallback"
    /\ index # {} /\ IndexEmptyFor(sreq.model)
    /\ sres.set = sreq.queryset /\ sres.set # {}

\* C8: a query without matches against an index that holds a document of
\* the type gets the empty set, whoever that document lists.
C8_FailOpenOnlyOnEmptyIndex ==
    (/\ sreq.made /\ sres.kind = "ok" /\ sres.path \in {"index", "fallback"}
     /\ ~IndexEmptyFor(sreq.model)
     /\ \A d \in index : ~(/\ UserQueryMatches(sreq.q, d)
                           /\ FilterQueryMatches(sreq.model, sreq.username, d)))
        => sres.set = {}

\* C9: q is answered by a direct filter iff it is a table string or the
\* whole of it has the shape of the pattern.
C9_ShortCircuitIffWholeShape ==
    (sreq.made /\ sreq.has_q /\ sres.kind = "ok")
        => (sres.path \in {"table", "pattern"}
              <=> (sreq.q \in CommonKeys \/ PatternFullMatch(sreq.q).ok))

(***************************************************************************)
(* Properties of KpiAssignedObjectPermissionsFilter                        *)
(***************************************************************************)
\* C3: a user who is neither superuser nor anonymous sees a row only if a
\* row of theirs has the same content type and object id.
C3_SameContentTypeAndObject ==
    (preq.made /\ ~preq.user.is_superuser /\ ~preq.user.is_anonymous)
        => \A pk \in pres :
              \E k \in PermPks :
                 /\ perms[k].user = preq.user.id
                 /\ perms[k].content_type = perms[pk].content_type
                 /\ perms[k].object_id = perms[pk].object_id

(***************************************************************************)
(* Properties of AttachmentFilter                                          *)
(***************************************************************************)
FilteredAttachments(r) ==
    IF r.type # <<>>
    THEN {pk \in DOMAIN atts : IStartsWith(atts[pk].mimetype, LowerText(r.type))}
    ELSE DOMAIN atts

RowKey(row) == GroupKey("question", row.attachments[1])

Range(seq) == {seq[i] : i \in DOMAIN seq}

\* C10: grouped by question with all true, the rows are one per key of the
\* filtered input, each with all the attachments of its key, numbered
\* 0, 1, 2, ... in order.
C10_OneRowPerKey ==
    (treq.made /\ treq.group_by = "question" /\ AllFlag(treq))
        => LET rows == tres.rows
               input == FilteredAttachments(treq)
           IN  /\ {RowKey(rows[i]) : i \in DOMAIN rows}
                    = {GroupKey("question", pk) : pk \in input}
               /\ \A i, j \in DOMAIN rows :
                     RowKey(rows[i]) = RowKey(rows[j]) => i = j
               /\ \A i \in DOMAIN rows :
                     /\ Range(rows[i].attachments)
                          = {pk \in input : GroupKey("question", pk)
                                              = RowKey(rows[i])}
                     /\ rows[i].index = i - 1

====
